---- MODULE Spec2Model ----
(***************************************************************************)
(* Model of the two monitoring scripts of kubeadm_ansible:                 *)
(*   scripts/health-check.py              (class K8sHealthManager)         *)
(*   roles/cluster_health_reporter/files/generate_health_report.py         *)
(*                                        (class ClusterHealthReporter)    *)
(*                                                                         *)
(* Percentages are kept in thousandths of a percent (90.0 % = 90000), so   *)
(* that 89.999, 90.0 and 90.001 are distinct integers.  Messages are       *)
(* tuples <<kind, subject, detail>>: kind is the fixed text of the f-string*)
(* subject the interpolated node / pattern, detail the interpolated number *)
(* (0 when the text has none).                                             *)
(*                                                                         *)
(* Four specifications share the variables:                                *)
(*   Spec         add_issue / add_warning / add_action called in any order *)
(*   SpecHC       one run of the health check, to its exit                 *)
(*   SpecRep      one generate_daily_report                                *)
(*   SpecDiscord  one send_to_discord                                      *)
(***************************************************************************)
EXTENDS Integers, Sequences, FiniteSets, TLC

VARIABLES
    health_report,     \* K8sHealthManager.health_report
    hc_pc,             \* position of the health-check run
    backend,           \* what Prometheus / the API server / Loki answer during the run
    all_healthy,       \* local of check_node_health after its loop ("unset" before)
    node_health,       \* run_health_check's locals: the three return values
    api_health,
    container_health,
    requests_made,     \* HTTP requests issued so far by the health-check run
    exit_code,         \* argument of sys.exit (-1 while running)
    caller,            \* the accumulator's caller: its last call and the status before it
    rep_pc,            \* position of generate_daily_report
    prom,              \* what Prometheus answers to the report generator
    nodes,             \* generate_daily_report's locals
    usage,
    pods,
    alerts,
    report,            \* the rendered report, line by line
    stderr,            \* messages the report generator printed to sys.stderr
    dc_pc,             \* position of send_to_discord
    report_text,       \* send_to_discord's arguments: the report, character by character,
    webhook_url,       \*   and the webhook URL
    posted,            \* content of the payload POSTed to the webhook (<<>> when none)
    post_count,        \* number of POSTs issued
    dc_out             \* what send_to_discord printed

hc_vars == <<health_report, hc_pc, backend, all_healthy, node_health, api_health,
             container_health, requests_made, exit_code, caller>>

rep_vars == <<rep_pc, prom, nodes, usage, pods, alerts, report, stderr>>

dc_vars == <<dc_pc, report_text, webhook_url, posted, post_count, dc_out>>

vars == <<hc_vars, rep_vars, dc_vars>>

\* ---------------------------------------------------------------- bounds

\* Longest sequence of add_issue / add_warning / add_action calls explored.
MaxCalls == 5

\* Longest alert list the alerts endpoint returns.
MaxAlerts == 2

\* Most rows in the answer to the disk usage query.
MaxRows == 2

\* Report lengths explored around the truncation budget: budget -/+ Slack.
Slack == 2

\* ------------------------------------------------------ program constants

cluster_nodes == <<"kube501.home", "kube502.home", "kube503.home", "kube511.home">>

ClusterNodeSet == {cluster_nodes[i] : i \in 1..Len(cluster_nodes)}

\* An instance Prometheus scrapes that is not in cluster_nodes.
OtherInstance == "other.home"

critical_patterns ==
    <<"kubelet.*failed", "apiserver.*error", "etcd.*error",
      "scheduler.*failed", "controller.*error">>

CpuIssuePct == 90
CpuWarnPct == 75
MemIssuePct == 90
MemWarnPct == 80

\* n percent in the model's unit (thousandths of a percent).
Pct(n) == n * 1000

\* ---------------------------------------------------------------- helpers

Msg(kind, subject, detail) == <<kind, subject, detail>>

\* f"{x:.1f}": x rounded to one decimal, given in tenths.  The readings used
\* are never an exact tie (x.x50), where the binary value would decide.
Fmt1(x) == (x + 50) \div 100

\* int(metric['value'][1]) on the sample strings Prometheus sends for up{}.
ParseInt(s) == IF s = "1" THEN 1 ELSE 0

\* ------------------------------------------------------- the accumulator

health_report_init ==
    [overall_status |-> "HEALTHY", issues |-> <<>>, warnings |-> <<>>,
     actions_taken |-> <<>>]

add_issue_keeps_status(hr, message) ==
    [hr EXCEPT !.issues = Append(@, message)]

add_issue(hr, message) ==
    [hr EXCEPT !.issues = Append(@, message), !.overall_status = "UNHEALTHY"]

add_warning_always_sets(hr, message) ==
    [hr EXCEPT !.warnings = Append(@, message), !.overall_status = "WARNING"]

add_warning(hr, message) ==
    [hr EXCEPT !.warnings = Append(@, message),
               !.overall_status = IF @ = "HEALTHY" THEN "WARNING" ELSE @]

add_action(hr, message) ==
    [hr EXCEPT !.actions_taken = Append(@, message)]

\* ------------------------------------------------------------ query client

Exc == [kind |-> "exc", rows |-> <<>>]              \* requests.RequestException (incl. timeout)
HttpError == [kind |-> "http_error", rows |-> <<>>] \* a response whose status is not 200
Ok(rows) == [kind |-> "ok", rows |-> rows]          \* 200 with data.result = rows

\* query_prometheus: the returned value (is_none: it is None; rows: data.result
\* of the parsed body otherwise) and the health report afterwards.  The
\* subject of the message stands for str(e), which names the request.
query_prometheus(hr, query, answer) ==
    IF answer.kind = "exc"
    THEN [is_none |-> TRUE, rows |-> <<>>,
          hr |-> add_issue(hr, Msg("Prometheus query failed", query, 0))]
    ELSE IF answer.kind = "ok"
    THEN [is_none |-> FALSE, rows |-> answer.rows, hr |-> hr]
    ELSE [is_none |-> TRUE, rows |-> <<>>, hr |-> hr]

\* ------------------------------------------------------- check_node_health

\* The dict built from the rows: a later row of an instance overwrites.
RECURSIVE status_dict(_, _)
status_dict(rows, d) ==
    IF rows = <<>> THEN d
    ELSE LET m == Head(rows)
             e == [i \in DOMAIN d \cup {m.instance} |->
                     IF i = m.instance THEN ParseInt(m.value) = 1 ELSE d[i]]
         IN  status_dict(Tail(rows), e)

EmptyDict == [i \in {} |-> FALSE]

\* One iteration of the loop over cluster_nodes, shared by check_node_health
\* and check_container_metrics (they differ in their message texts only).
node_step_missing_is_issue(st, status, node, downKind, missingKind) ==
    IF node \in DOMAIN status /\ status[node]
    THEN st
    ELSE [hr |-> add_issue(st.hr, Msg(IF node \in DOMAIN status THEN downKind
                                      ELSE missingKind, node, 0)),
          all_healthy |-> FALSE]

node_step(st, status, node, downKind, missingKind) ==
    IF node \in DOMAIN status
    THEN IF status[node]
         THEN st
         ELSE [hr |-> add_issue(st.hr, Msg(downKind, node, 0)), all_healthy |-> FALSE]
    ELSE [hr |-> add_warning(st.hr, Msg(missingKind, node, 0)), all_healthy |-> FALSE]

RECURSIVE node_loop(_, _, _, _, _)
node_loop(st, status, todo, downKind, missingKind) ==
    IF todo = <<>> THEN st
    ELSE node_loop(node_step(st, status, Head(todo), downKind, missingKind),
                   status, Tail(todo), downKind, missingKind)

\* ---------------------------------------------------- check_node_resources

cpu_is_issue_inclusive(p) == p >= Pct(CpuIssuePct)

cpu_is_issue(p) == p > Pct(CpuIssuePct)

cpu_is_warning(p) == p > Pct(CpuWarnPct)

memory_is_issue(p) == p > Pct(MemIssuePct)

memory_is_warning(p) == p > Pct(MemWarnPct)

\* The CPU loop of check_node_resources over data.result.
RECURSIVE cpu_loop(_, _)
cpu_loop(hr, rows) ==
    IF rows = <<>> THEN hr
    ELSE LET m   == Head(rows)
             nxt == IF m.instance \in ClusterNodeSet
                    THEN IF cpu_is_issue(m.value)
                         THEN add_issue(hr, Msg("High CPU usage on", m.instance, Fmt1(m.value)))
                         ELSE IF cpu_is_warning(m.value)
                         THEN add_warning(hr, Msg("Elevated CPU usage on", m.instance,
                                                  Fmt1(m.value)))
                         ELSE hr
                    ELSE hr
         IN  cpu_loop(nxt, Tail(rows))

\* The memory loop of check_node_resources.
RECURSIVE memory_loop(_, _)
memory_loop(hr, rows) ==
    IF rows = <<>> THEN hr
    ELSE LET m   == Head(rows)
             nxt == IF m.instance \in ClusterNodeSet
                    THEN IF memory_is_issue(m.value)
                         THEN add_issue(hr, Msg("High memory usage on", m.instance,
                                                Fmt1(m.value)))
                         ELSE IF memory_is_warning(m.value)
                         THEN add_warning(hr, Msg("Elevated memory usage on", m.instance,
                                                  Fmt1(m.value)))
                         ELSE hr
                    ELSE hr
         IN  memory_loop(nxt, Tail(rows))

\* ------------------------------------------------------ check_critical_logs

RECURSIVE SumSeq(_)
SumSeq(s) == IF s = <<>> THEN 0 ELSE Head(s) + SumSeq(Tail(s))

\* One Loki answer: "exc", "http_error", or "ok" with the number of values of
\* each returned stream.
LokiExc == [kind |-> "exc", streams |-> <<>>]
LokiHttpError == [kind |-> "http_error", streams |-> <<>>]
LokiOk(streams) == [kind |-> "ok", streams |-> streams]

RECURSIVE logs_loop(_, _, _)
logs_loop(hr, patterns, loki) ==
    IF patterns = <<>> THEN hr
    ELSE LET pattern == Head(patterns)
             a       == loki[pattern]
             count   == SumSeq(a.streams)
             nxt     == IF a.kind = "ok" /\ a.streams # <<>> /\ count > 0
                        THEN add_warning(hr, Msg("Found critical log entries for pattern",
                                                 pattern, count))
                        ELSE hr
         IN  logs_loop(nxt, Tail(patterns), loki)

\* --------------------------------------------------------------- exit code

exit_code_by_severity(status) ==
    IF status = "UNHEALTHY" THEN 2
    ELSE IF status = "WARNING" THEN 1
    ELSE 0

exit_code_of(status) ==
    IF status = "UNHEALTHY" THEN 1
    ELSE IF status = "WARNING" THEN 2
    ELSE 0

\* ------------------------------------------- what the backends can answer

Sample(instance, value) == [instance |-> instance, value |-> value]

\* The rows of an instant vector with one sample per instance of f's domain
\* that f does not map to `absent', in cluster_nodes order, OtherInstance last.
RECURSIVE RowsOf(_, _, _)
RowsOf(f, order, absent) ==
    IF order = <<>> THEN <<>>
    ELSE LET i == Head(order)
         IN  IF i \in DOMAIN f /\ f[i] # absent
             THEN <<Sample(i, f[i])>> \o RowsOf(f, Tail(order), absent)
             ELSE RowsOf(f, Tail(order), absent)

InstanceOrder == cluster_nodes \o <<OtherInstance>>

AllUp == Ok(RowsOf([n \in ClusterNodeSet |-> "1"], InstanceOrder, "absent"))

\* up{job=...}: no answer, or each cluster node absent, "0" or "1".
UpAnswers ==
    {Exc, HttpError} \cup
    {Ok(RowsOf(f, InstanceOrder, "absent")) :
        f \in [ClusterNodeSet -> {"absent", "0", "1"}]}

\* Readings around the two CPU thresholds, in thousandths of a percent.
CpuReadings == {0, 74999, 75000, 75001, 89999, 90000, 90001, 100000}

MemReadings == {79999, 80000, 80001, 89999, 90000, 90001}

\* A usage query: no answer, or a reading (or none, written -1) for the first
\* two cluster nodes and possibly one, over every threshold, for an instance
\* outside the cluster.
UsageAnswers(readings) ==
    {Exc, HttpError} \cup
    {Ok(RowsOf(f, InstanceOrder, -1)) :
        f \in {g \in [{cluster_nodes[1], cluster_nodes[2], OtherInstance} ->
                        readings \cup {-1}] :
                 g[OtherInstance] \in {-1, 100000}}}

NoUsage == Ok(<<>>)

ApiOk == [kind |-> "resp", status_code |-> 200, text |-> "ok"]

ApiAnswers ==
    {ApiOk, [kind |-> "resp", status_code |-> 200, text |-> "degraded"],
     [kind |-> "resp", status_code |-> 503, text |-> "ok"],
     [kind |-> "exc", status_code |-> 0, text |-> ""]}

PatternSet == {critical_patterns[i] : i \in 1..Len(critical_patterns)}

LokiQuiet == [p \in PatternSet |-> LokiOk(<<>>)]

\* Loki: quiet, unreachable, or one pattern answering something else.
LokiAnswers ==
    {LokiQuiet, [p \in PatternSet |-> LokiExc]} \cup
    {[LokiQuiet EXCEPT ![p] = a] :
        p \in PatternSet,
        a \in {LokiExc, LokiHttpError, LokiOk(<<0>>), LokiOk(<<2>>), LokiOk(<<1, 3>>)}}

World(up, cpu, mem, api, cadvisor, loki) ==
    [up |-> up, cpu |-> cpu, memory |-> mem, api |-> api, cadvisor |-> cadvisor,
     loki |-> loki]

\* The runs explored: one backend answers anything it can while the others
\* answer from a short list (all well, or no answer).
Worlds ==
    {World(up, NoUsage, NoUsage, ApiOk, cad, LokiQuiet) :
        up \in UpAnswers, cad \in {AllUp, HttpError}}
    \cup
    {World(up, cpu, mem, ApiOk, AllUp, LokiQuiet) :
        up \in {AllUp}, cpu \in UsageAnswers(CpuReadings),
        mem \in {NoUsage, HttpError, Ok(<<Sample(cluster_nodes[1], 95000)>>)}}
    \cup
    {World(up, cpu, mem, ApiOk, AllUp, LokiQuiet) :
        up \in {AllUp}, cpu \in {NoUsage, HttpError},
        mem \in UsageAnswers(MemReadings)}
    \cup
    {World(up, NoUsage, NoUsage, api, cad, loki) :
        up \in {AllUp, HttpError, Exc}, api \in ApiAnswers,
        cad \in UpAnswers, loki \in {LokiQuiet}}
    \cup
    {World(up, NoUsage, NoUsage, api, AllUp, loki) :
        up \in {AllUp, HttpError}, api \in {ApiOk, [kind |-> "exc", status_code |-> 0, text |-> ""]},
        loki \in LokiAnswers}

\* ---------------------------------------------------- the health-check run

\* check_node_health up to its loop's end (a failed query returns False at once).
check_node_health ==
    /\ hc_pc = "check_node_health"
    /\ LET q == query_prometheus(health_report, "up{job='node_exporter'}", backend.up)
       IN  /\ requests_made' = Append(requests_made, "up{job='node_exporter'}")
           /\ IF q.is_none
              THEN /\ health_report' = q.hr
                   /\ node_health' = FALSE
                   /\ hc_pc' = "check_kubernetes_api"
                   /\ UNCHANGED all_healthy
              ELSE LET st == node_loop([hr |-> q.hr, all_healthy |-> TRUE],
                                       status_dict(q.rows, EmptyDict), cluster_nodes,
                                       "Node exporter down on", "No metrics found for")
                   IN  /\ health_report' = st.hr
                       /\ all_healthy' = st.all_healthy
                       /\ hc_pc' = "check_cpu"
                       /\ UNCHANGED node_health
    /\ UNCHANGED <<backend, api_health, container_health, exit_code, caller>>
    /\ UNCHANGED <<rep_vars, dc_vars>>

\* check_node_resources, the CPU query and its loop.
check_cpu ==
    /\ hc_pc = "check_cpu"
    /\ LET q == query_prometheus(health_report, "cpu_query", backend.cpu)
       IN  /\ requests_made' = Append(requests_made, "cpu_query")
           /\ health_report' = IF q.is_none THEN q.hr ELSE cpu_loop(q.hr, q.rows)
    /\ hc_pc' = "check_memory"
    /\ UNCHANGED <<backend, all_healthy, node_health, api_health, container_health,
                   exit_code, caller>>
    /\ UNCHANGED <<rep_vars, dc_vars>>

\* check_node_resources, the memory query and its loop; then check_node_health
\* returns all_healthy.
check_memory ==
    /\ hc_pc = "check_memory"
    /\ LET q == query_prometheus(health_report, "memory_query", backend.memory)
       IN  /\ requests_made' = Append(requests_made, "memory_query")
           /\ health_report' = IF q.is_none THEN q.hr ELSE memory_loop(q.hr, q.rows)
    /\ node_health' = all_healthy
    /\ hc_pc' = "check_kubernetes_api"
    /\ UNCHANGED <<backend, all_healthy, api_health, container_health, exit_code, caller>>
    /\ UNCHANGED <<rep_vars, dc_vars>>

check_kubernetes_api ==
    /\ hc_pc = "check_kubernetes_api"
    /\ requests_made' = Append(requests_made, "healthz")
    /\ LET r == backend.api
       IN  IF r.kind = "exc"
           THEN /\ health_report' =
                       add_issue(health_report, Msg("Cannot reach Kubernetes API", "", 0))
                /\ api_health' = FALSE
           ELSE IF r.status_code = 200 /\ r.text = "ok"
           THEN /\ api_health' = TRUE
                /\ UNCHANGED health_report
           ELSE /\ health_report' =
                       add_issue(health_report,
                                 Msg("API server health check failed", "", r.status_code))
                /\ api_health' = FALSE
    /\ hc_pc' = "check_container_metrics"
    /\ UNCHANGED <<backend, all_healthy, node_health, container_health, exit_code,
                   caller>>
    /\ UNCHANGED <<rep_vars, dc_vars>>

check_container_metrics ==
    /\ hc_pc = "check_container_metrics"
    /\ LET q == query_prometheus(health_report, "up{job='cadvisor'}", backend.cadvisor)
       IN  /\ requests_made' = Append(requests_made, "up{job='cadvisor'}")
           /\ IF q.is_none
              THEN /\ health_report' = q.hr
                   /\ container_health' = FALSE
              ELSE LET st == node_loop([hr |-> q.hr, all_healthy |-> TRUE],
                                       status_dict(q.rows, EmptyDict), cluster_nodes,
                                       "cAdvisor down on", "cAdvisor not reporting from")
                   IN  /\ health_report' = st.hr
                       /\ container_health' = st.all_healthy
    /\ hc_pc' = "check_critical_logs"
    /\ UNCHANGED <<backend, all_healthy, node_health, api_health, exit_code, caller>>
    /\ UNCHANGED <<rep_vars, dc_vars>>

check_critical_logs ==
    /\ hc_pc = "check_critical_logs"
    /\ requests_made' = requests_made \o critical_patterns
    /\ health_report' = logs_loop(health_report, critical_patterns, backend.loki)
    /\ hc_pc' = "exit"
    /\ UNCHANGED <<backend, all_healthy, node_health, api_health, container_health,
                   exit_code, caller>>
    /\ UNCHANGED <<rep_vars, dc_vars>>

\* run_health_check returns the report and the script exits on its status.
main_exit ==
    /\ hc_pc = "exit"
    /\ exit_code' = exit_code_of(health_report.overall_status)
    /\ hc_pc' = "exited"
    /\ UNCHANGED <<health_report, backend, all_healthy, node_health, api_health,
                   container_health, requests_made, caller>>
    /\ UNCHANGED <<rep_vars, dc_vars>>

NoCall == [op |-> "none", message |-> Msg("", "", 0), before |-> "HEALTHY"]

Called(op, m) == [op |-> op, message |-> m, before |-> health_report.overall_status]

\* ------------------------------------------ the accumulator called freely

ApiMessages == {Msg("m1", "", 0), Msg("m2", "", 0)}

Calls == Len(health_report.issues) + Len(health_report.warnings)
         + Len(health_report.actions_taken)

call_add_issue ==
    /\ hc_pc = "api"
    /\ Calls < MaxCalls
    /\ \E m \in ApiMessages :
          /\ health_report' = add_issue(health_report, m)
          /\ caller' = Called("add_issue", m)
    /\ UNCHANGED <<hc_pc, backend, all_healthy, node_health, api_health,
                   container_health, requests_made, exit_code>>
    /\ UNCHANGED <<rep_vars, dc_vars>>

call_add_warning ==
    /\ hc_pc = "api"
    /\ Calls < MaxCalls
    /\ \E m \in ApiMessages :
          /\ health_report' = add_warning(health_report, m)
          /\ caller' = Called("add_warning", m)
    /\ UNCHANGED <<hc_pc, backend, all_healthy, node_health, api_health,
                   container_health, requests_made, exit_code>>
    /\ UNCHANGED <<rep_vars, dc_vars>>

call_add_action ==
    /\ hc_pc = "api"
    /\ Calls < MaxCalls
    /\ \E m \in ApiMessages :
          /\ health_report' = add_action(health_report, m)
          /\ caller' = Called("add_action", m)
    /\ UNCHANGED <<hc_pc, backend, all_healthy, node_health, api_health,
                   container_health, requests_made, exit_code>>
    /\ UNCHANGED <<rep_vars, dc_vars>>

\* ======================================================= the report generator

\* A key absent from the JSON (dict.get then yields its default).
Missing == "<missing>"

Get(v, default) == IF v = Missing THEN default ELSE v

\* One line of the report: the fixed text or marker of its f-string and the
\* values interpolated into it.
Line(kind, marker, name, text, num) ==
    [kind |-> kind, marker |-> marker, name |-> name, text |-> text, num |-> num]

Text(t) == Line("text", "", "", t, 0)

Blank == Line("text", "", "", "", 0)

Banner == Line("text", "", "", "=x60", 0)

\* ClusterHealthReporter.query_prometheus: any exception (transport error,
\* timeout, raise_for_status on a non-2xx answer) is printed to stderr and an
\* empty result returned.
reporter_query_prometheus(err, answer) ==
    IF answer.kind = "ok"
    THEN [rows |-> answer.rows, err |-> err]
    ELSE [rows |-> <<>>, err |-> Append(err, "Error querying Prometheus")]

\* get_node_status
node_entry(item) ==
    [node |-> Get(item.instance, "unknown"),
     status |-> IF item.value = "1" THEN "UP" ELSE "DOWN"]

RECURSIVE node_entries(_)
node_entries(rows) ==
    IF rows = <<>> THEN <<>> ELSE <<node_entry(Head(rows))>> \o node_entries(Tail(rows))

\* get_resource_usage, one entry
usage_entry(item) == [node |-> Get(item.instance, "unknown"), value |-> item.value]

RECURSIVE usage_entries(_)
usage_entries(rows) ==
    IF rows = <<>> THEN <<>> ELSE <<usage_entry(Head(rows))>> \o usage_entries(Tail(rows))

\* get_pod_status, one phase: int(value[0]['value'][1]) if value else 0
pod_count(rows) == IF rows # <<>> THEN rows[1].value ELSE 0

\* get_alerts: the firing entries, in order, with their defaults.
is_firing_or_pending(alert) == alert.state \in {"firing", "pending"}

is_firing(alert) == alert.state = "firing"

alert_entry(alert) ==
    [name |-> Get(alert.alertname, "Unknown"),
     severity |-> Get(alert.severity, "info"),
     summary |-> Get(alert.summary, ""),
     since |-> Get(alert.activeAt, "")]

RECURSIVE firing_alerts(_)
firing_alerts(data) ==
    IF data = <<>> THEN <<>>
    ELSE (IF is_firing(Head(data)) THEN <<alert_entry(Head(data))>> ELSE <<>>)
         \o firing_alerts(Tail(data))

get_alerts_result(answer) ==
    IF answer.kind = "ok" THEN firing_alerts(answer.alerts) ELSE <<>>

\* generate_daily_report: the marker of a usage value
usage_emoji_exclusive(value) ==
    IF value <= Pct(70) THEN "green" ELSE IF value <= Pct(85) THEN "yellow" ELSE "red"

usage_emoji(value) ==
    IF value < Pct(70) THEN "green" ELSE IF value < Pct(85) THEN "yellow" ELSE "red"

severity_emoji(severity) ==
    IF severity = "critical" THEN "red"
    ELSE IF severity = "warning" THEN "yellow"
    ELSE IF severity = "info" THEN "blue"
    ELSE "white"

node_line(node) ==
    Line("node", IF node.status = "UP" THEN "check" ELSE "cross", node.node, node.status, 0)

usage_line(item) == Line("usage", usage_emoji(item.value), item.node, "", Fmt1(item.value))

alert_line(alert) ==
    Line("alert", severity_emoji(alert.severity), alert.name, alert.summary, 0)

NoActiveAlerts == Line("no_alerts", "check", "", "No active alerts", 0)

RECURSIVE node_lines(_)
node_lines(ns) ==
    IF ns = <<>> THEN <<>> ELSE <<node_line(Head(ns))>> \o node_lines(Tail(ns))

RECURSIVE usage_lines(_)
usage_lines(data) ==
    IF data = <<>> THEN <<>> ELSE <<usage_line(Head(data))>> \o usage_lines(Tail(data))

RECURSIVE alert_lines(_)
alert_lines(as) ==
    IF as = <<>> THEN <<>> ELSE <<alert_line(Head(as))>> \o alert_lines(Tail(as))

usage_section(heading, data) ==
    <<Text(heading)>> \o usage_lines(data) \o <<Blank>>

alerts_section(as) ==
    IF as # <<>> THEN alert_lines(as) ELSE <<NoActiveAlerts>>

render_daily(ns, us, ps, as) ==
    <<Banner, Text("Kubernetes Cluster Health Report - Daily"),
      Line("generated", "", "", "timestamp", 0), Banner, Blank>>
    \o <<Text("## Node Status")>> \o node_lines(ns) \o <<Blank>>
    \o <<Text("## Resource Usage")>>
    \o usage_section("### CPU", us.cpu)
    \o usage_section("### MEMORY", us.memory)
    \o usage_section("### DISK", us.disk)
    \o <<Text("## Pod Status"),
         Line("pods", "", "Total", "", ps.total),
         Line("pods", "", "Running", "", ps.running),
         Line("pods", "", "Pending", "", ps.pending),
         Line("pods", "", "Failed", "", ps.failed),
         Blank>>
    \o <<Text("## Active Alerts")>> \o alerts_section(as) \o <<Blank>>
    \o <<Banner>>

\* ---- the steps of generate_daily_report

get_node_status ==
    /\ rep_pc = "get_node_status"
    /\ LET q == reporter_query_prometheus(stderr, prom.nodes)
       IN  /\ nodes' = node_entries(q.rows)
           /\ stderr' = q.err
    /\ rep_pc' = "get_resource_usage"
    /\ UNCHANGED <<prom, usage, pods, alerts, report>>
    /\ UNCHANGED <<hc_vars, dc_vars>>

get_resource_usage ==
    /\ rep_pc = "get_resource_usage"
    /\ LET c == reporter_query_prometheus(stderr, prom.cpu)
           m == reporter_query_prometheus(c.err, prom.memory)
           d == reporter_query_prometheus(m.err, prom.disk)
       IN  /\ usage' = [cpu |-> usage_entries(c.rows),
                        memory |-> usage_entries(m.rows),
                        disk |-> usage_entries(d.rows)]
           /\ stderr' = d.err
    /\ rep_pc' = "get_pod_status"
    /\ UNCHANGED <<prom, nodes, pods, alerts, report>>
    /\ UNCHANGED <<hc_vars, dc_vars>>

get_pod_status ==
    /\ rep_pc = "get_pod_status"
    /\ LET r == reporter_query_prometheus(stderr, prom.running)
           p == reporter_query_prometheus(r.err, prom.pending)
           f == reporter_query_prometheus(p.err, prom.failed)
           t == reporter_query_prometheus(f.err, prom.total)
       IN  /\ pods' = [running |-> pod_count(r.rows), pending |-> pod_count(p.rows),
                       failed |-> pod_count(f.rows), total |-> pod_count(t.rows)]
           /\ stderr' = t.err
    /\ rep_pc' = "get_alerts"
    /\ UNCHANGED <<prom, nodes, usage, alerts, report>>
    /\ UNCHANGED <<hc_vars, dc_vars>>

get_alerts ==
    /\ rep_pc = "get_alerts"
    /\ alerts' = get_alerts_result(prom.alerts)
    /\ stderr' = IF prom.alerts.kind = "ok" THEN stderr
                 ELSE Append(stderr, "Error getting alerts")
    /\ rep_pc' = "render"
    /\ UNCHANGED <<prom, nodes, usage, pods, report>>
    /\ UNCHANGED <<hc_vars, dc_vars>>

generate_daily_report ==
    /\ rep_pc = "render"
    /\ report' = render_daily(nodes, usage, pods, alerts)
    /\ rep_pc' = "done"
    /\ UNCHANGED <<prom, nodes, usage, pods, alerts, stderr>>
    /\ UNCHANGED <<hc_vars, dc_vars>>

\* ---- what Prometheus can answer to the report generator

SeqsUpTo(S, n) == UNION {[1..k -> S] : k \in 0..n}

OneUp == Ok(<<Sample("kube501.home", "1")>>)

NodeAnswers ==
    {Exc, HttpError, Ok(<<>>), OneUp} \cup
    {Ok(<<Sample(i, v), Sample("kube502.home", w)>>) :
        i \in {"kube501.home", Missing}, v \in {"0", "1"}, w \in {"0", "1"}}

\* Readings around the two report thresholds, in thousandths of a percent.
UsageReadings == {0, 69999, 70000, 70001, 84999, 85000, 85001, 100000}

DiskAnswers ==
    {Exc, HttpError} \cup
    {Ok(rows) : rows \in SeqsUpTo({Sample("kube501.home", v) : v \in UsageReadings}
                                   \cup {Sample(Missing, 85000)}, MaxRows)}

OtherUsageAnswers == {NoUsage, HttpError, Ok(<<Sample("kube501.home", 70000)>>)}

Scalar(n) == Ok(<<Sample(Missing, n)>>)

PodAnswers == {Ok(<<>>), Exc, Scalar(3)}

Alert(state, alertname, severity, summary) ==
    [state |-> state, alertname |-> alertname, severity |-> severity,
     summary |-> summary, activeAt |-> Missing]

AlertEntries ==
    {Alert(st, n, sv, "summary") :
        st \in {"firing", "resolved", "pending"}, n \in {"NodeDown", "DiskFull", Missing},
        sv \in {"critical", Missing}}
    \cup {Alert("firing", "NodeDown", "page", Missing)}

AlertsOk(as) == [kind |-> "ok", alerts |-> as]
AlertsExc == [kind |-> "exc", alerts |-> <<>>]
AlertsHttpError == [kind |-> "http_error", alerts |-> <<>>]

AlertAnswers ==
    {AlertsExc, AlertsHttpError} \cup {AlertsOk(as) : as \in SeqsUpTo(AlertEntries, MaxAlerts)}

RepWorld(ns, cpu, mem, disk, running, pending, failed, total, as) ==
    [nodes |-> ns, cpu |-> cpu, memory |-> mem, disk |-> disk, running |-> running,
     pending |-> pending, failed |-> failed, total |-> total, alerts |-> as]

\* The runs explored: one group of queries answers anything it can while the
\* others answer from a short list.
RepWorlds ==
    {RepWorld(OneUp, NoUsage, NoUsage, NoUsage, Scalar(8), Scalar(1), Scalar(0), Scalar(9), as) :
        as \in AlertAnswers}
    \cup
    {RepWorld(OneUp, cpu, mem, disk, Scalar(8), Scalar(1), Scalar(0), Scalar(9), AlertsOk(<<>>)) :
        cpu \in OtherUsageAnswers, mem \in OtherUsageAnswers, disk \in DiskAnswers}
    \cup
    {RepWorld(ns, NoUsage, NoUsage, HttpError, r, p, Scalar(0), t, as) :
        ns \in NodeAnswers, r \in PodAnswers, p \in PodAnswers, t \in PodAnswers,
        as \in {AlertsOk(<<>>), AlertsExc}}

\* =========================================================== send_to_discord

TruncateAt == 1990

\* Texts are sequences of code points: 10 is "\n", 96 the backquote.
\* "\n... (truncated)"
TruncationSuffix ==
    <<10, 46, 46, 46, 32, 40, 116, 114, 117, 110, 99, 97, 116, 101, 100, 41>>

\* The f-string around the content: three backquotes and a line break before
\* it, a line break and three backquotes after it.
CodeBlockOpen == <<96, 96, 96, 10>>

CodeBlockClose == <<10, 96, 96, 96>>

discord_content_one_short(text) ==
    IF Len(text) < TruncateAt THEN text
    ELSE SubSeq(text, 1, TruncateAt - 1) \o TruncationSuffix

discord_content(text) ==
    IF Len(text) < TruncateAt THEN text
    ELSE SubSeq(text, 1, TruncateAt) \o TruncationSuffix

payload_content(text) == CodeBlockOpen \o discord_content(text) \o CodeBlockClose

send_to_discord ==
    /\ dc_pc = "send_to_discord"
    /\ IF webhook_url = ""
       THEN /\ dc_out' = "Discord webhook not configured, skipping notification"
            /\ UNCHANGED <<posted, post_count>>
       ELSE /\ posted' = payload_content(report_text)
            /\ post_count' = post_count + 1
            /\ \E outcome \in {"ok", "HTTPError", "ConnectionError"} :
                  dc_out' = IF outcome = "ok" THEN "Report sent to Discord successfully"
                            ELSE IF outcome = "HTTPError"
                            THEN "Error sending to Discord: HTTPError"
                            ELSE "Error sending to Discord: ConnectionError"
    /\ dc_pc' = "returned"
    /\ UNCHANGED <<report_text, webhook_url>>
    /\ UNCHANGED <<hc_vars, rep_vars>>

\* The reports handed to send_to_discord: every length around the budget, the
\* empty report, a one-character report and one twice the budget, each in three
\* character patterns.
ReportLengths ==
    {0, 1, 2 * TruncateAt} \cup {n \in 0..(2 * TruncateAt) :
                                   n >= TruncateAt - Slack /\ n <= TruncateAt + Slack}

ReportChar(i, seed) == <<97, 98, 10>>[((i * seed) % 3) + 1]

ReportTexts == {[i \in 1..n |-> ReportChar(i, seed)] : n \in ReportLengths, seed \in {1, 2, 3}}

\* ============================================================ specifications

HCIdle ==
    /\ health_report = health_report_init
    /\ backend = World(AllUp, NoUsage, NoUsage, ApiOk, AllUp, LokiQuiet)
    /\ all_healthy = "unset"
    /\ node_health = "unset"
    /\ api_health = "unset"
    /\ container_health = "unset"
    /\ requests_made = <<>>
    /\ exit_code = -1
    /\ caller = NoCall

RepStart ==
    /\ nodes = <<>>
    /\ usage = [cpu |-> <<>>, memory |-> <<>>, disk |-> <<>>]
    /\ pods = [running |-> 0, pending |-> 0, failed |-> 0, total |-> 0]
    /\ alerts = <<>>
    /\ report = <<>>
    /\ stderr = <<>>

RepIdle ==
    /\ rep_pc = "idle"
    /\ prom = RepWorld(OneUp, NoUsage, NoUsage, NoUsage, Scalar(0), Scalar(0), Scalar(0),
                       Scalar(0), AlertsOk(<<>>))
    /\ RepStart

DcStart ==
    /\ posted = <<>>
    /\ post_count = 0
    /\ dc_out = ""

DcIdle ==
    /\ dc_pc = "idle"
    /\ report_text = <<>>
    /\ webhook_url = ""
    /\ DcStart

\* The accumulator, called in any order.
Init ==
    /\ hc_pc = "api"
    /\ HCIdle
    /\ RepIdle
    /\ DcIdle

Next ==
    \/ call_add_issue
    \/ call_add_warning
    \/ call_add_action

Spec == Init /\ [][Next]_vars

\* One run of the health check.
InitHC ==
    /\ health_report = health_report_init
    /\ hc_pc = "check_node_health"
    /\ backend \in Worlds
    /\ all_healthy = "unset"
    /\ node_health = "unset"
    /\ api_health = "unset"
    /\ container_health = "unset"
    /\ requests_made = <<>>
    /\ exit_code = -1
    /\ caller = NoCall
    /\ RepIdle
    /\ DcIdle

NextHC ==
    \/ check_node_health
    \/ check_cpu
    \/ check_memory
    \/ check_kubernetes_api
    \/ check_container_metrics
    \/ check_critical_logs
    \/ main_exit

SpecHC == InitHC /\ [][NextHC]_vars

\* One daily report.
InitRep ==
    /\ hc_pc = "idle"
    /\ HCIdle
    /\ rep_pc = "get_node_status"
    /\ prom \in RepWorlds
    /\ RepStart
    /\ DcIdle

NextRep ==
    \/ get_node_status
    \/ get_resource_usage
    \/ get_pod_status
    \/ get_alerts
    \/ generate_daily_report

SpecRep == InitRep /\ [][NextRep]_vars

\* One call of send_to_discord.
InitDiscord ==
    /\ hc_pc = "idle"
    /\ HCIdle
    /\ RepIdle
    /\ dc_pc = "send_to_discord"
    /\ report_text \in ReportTexts
    /\ webhook_url \in {"", "https://discord.example/api/webhooks/1"}
    /\ DcStart

NextDiscord == send_to_discord

SpecDiscord == InitDiscord /\ [][NextDiscord]_vars

\* ================================================================= claims

Rank(status) ==
    IF status = "HEALTHY" THEN 0 ELSE IF status = "WARNING" THEN 1 ELSE 2

Count(seq, m) == Cardinality({i \in DOMAIN seq : seq[i] = m})

Executed(query) == \E i \in DOMAIN requests_made : requests_made[i] = query

\* C1: overall_status never improves under add_issue / add_warning /
\* add_action: its rank never falls (so UNHEALTHY stays UNHEALTHY, also under
\* add_warning, and WARNING never returns to HEALTHY), and a step that newly
\* makes it WARNING starts in HEALTHY.
C1_StatusNeverImproves ==
    [][/\ Rank(health_report'.overall_status) >= Rank(health_report.overall_status)
       /\ (health_report'.overall_status = "WARNING"
           /\ health_report.overall_status # "WARNING")
          => health_report.overall_status = "HEALTHY"]_vars

\* C1 witness: add_warning was called on an UNHEALTHY report and left it so.
C1_Witness ==
    /\ caller.op = "add_warning"
    /\ caller.before = "UNHEALTHY"
    /\ health_report.overall_status = "UNHEALTHY"

\* C2: a run that reached the end of run_health_check exits with 0 for
\* HEALTHY, 2 for WARNING and 1 for UNHEALTHY, and no exit code is produced
\* before that.
C2_ExitCodeFromStatus ==
    IF hc_pc = "exited"
    THEN \/ health_report.overall_status = "HEALTHY" /\ exit_code = 0
         \/ health_report.overall_status = "WARNING" /\ exit_code = 2
         \/ health_report.overall_status = "UNHEALTHY" /\ exit_code = 1
    ELSE exit_code = -1

\* C2 witness: a run ended with warnings only and exit code 2.
C2_Witness ==
    /\ hc_pc = "exited"
    /\ health_report.overall_status = "WARNING"
    /\ exit_code = 2

\* The CPU readings of cluster nodes the CPU loop has gone through.
CpuRowsChecked ==
    IF Executed("cpu_query") /\ backend.cpu.kind = "ok"
    THEN {i \in DOMAIN backend.cpu.rows : backend.cpu.rows[i].instance \in ClusterNodeSet}
    ELSE {}

CpuIssueRecorded(row) ==
    \E k \in DOMAIN health_report.issues :
        health_report.issues[k] = Msg("High CPU usage on", row.instance, Fmt1(row.value))

\* C3 as stated: a CPU reading p of a known node is recorded as an issue if
\* and only if p >= 90.
C3_IssueIffAtLeast90 ==
    \A i \in CpuRowsChecked :
        CpuIssueRecorded(backend.cpu.rows[i]) <=> backend.cpu.rows[i].value >= Pct(90)

\* C3 amended: a CPU reading p of a known node is recorded as an issue if and
\* only if p > 90 (90.0 exactly is not an issue, 90.001 is).
C3_IssueIffAbove90 ==
    \A i \in CpuRowsChecked :
        CpuIssueRecorded(backend.cpu.rows[i]) <=> backend.cpu.rows[i].value > Pct(90)

\* C3 witness: one node read exactly 90.0 and got no issue, another read
\* 90.001 and got one.
C3_Witness ==
    \E i, j \in CpuRowsChecked :
        /\ backend.cpu.rows[i].value = 90000
        /\ ~CpuIssueRecorded(backend.cpu.rows[i])
        /\ backend.cpu.rows[j].value = 90001
        /\ CpuIssueRecorded(backend.cpu.rows[j])

\* The known nodes without a sample in the answer to up{job='node_exporter'}.
MissingNodes ==
    IF backend.up.kind = "ok"
    THEN {n \in ClusterNodeSet :
            \A i \in DOMAIN backend.up.rows : backend.up.rows[i].instance # n}
    ELSE {}

IssuesAbout(n) == {k \in DOMAIN health_report.issues : health_report.issues[k][2] = n}

WarningsAbout(n) ==
    {k \in DOMAIN health_report.warnings : health_report.warnings[k][2] = n}

\* C4: once check_node_health's loop has run, every known node without a
\* sample has exactly one "No metrics found for" warning and no "down" issue
\* (right after the loop: one warning and no issue at all), and if there is
\* such a node all_healthy, and later the value check_node_health returns, is
\* false and overall_status is not HEALTHY.
C4_MissingNodeIsWarning ==
    (backend.up.kind = "ok" /\ Executed("up{job='node_exporter'}")) =>
        /\ \A n \in MissingNodes :
              /\ Count(health_report.warnings, Msg("No metrics found for", n, 0)) = 1
              /\ Count(health_report.issues, Msg("Node exporter down on", n, 0)) = 0
              /\ hc_pc = "check_cpu" =>
                    Cardinality(WarningsAbout(n)) = 1 /\ IssuesAbout(n) = {}
        /\ MissingNodes # {} =>
              /\ all_healthy = FALSE
              /\ health_report.overall_status # "HEALTHY"
              /\ hc_pc \notin {"check_cpu", "check_memory"} => node_health = FALSE

\* C4 witness: the loop has run, one known node had no sample, the others
\* were up, and the report is at WARNING.
C4_Witness ==
    /\ hc_pc = "check_cpu"
    /\ Cardinality(MissingNodes) = 1
    /\ health_report.overall_status = "WARNING"
    /\ health_report.issues = <<>>
    /\ all_healthy = FALSE

\* C5 as stated: a run in which node status could not be determined (the up
\* query failed by a transport error, a timeout or a non-200 status, or a
\* known node is missing from its result) ends with a status other than
\* HEALTHY and an exit code other than 0.
C5_UndeterminedCountsAgainstHealth ==
    (hc_pc = "exited" /\ (backend.up.kind # "ok" \/ MissingNodes # {})) =>
        health_report.overall_status # "HEALTHY" /\ exit_code # 0

PrometheusQueries ==
    [up |-> "up{job='node_exporter'}", cpu |-> "cpu_query", memory |-> "memory_query",
     cadvisor |-> "up{job='cadvisor'}"]

\* C6 as stated, for the health-check flow: every metrics query that met a
\* transport error or a non-200 status was requested exactly once, left a
\* "Prometheus query failed" message, returned no data (the node check
\* returned False with its loop not run) and the run went on to its exit.
C6_FailedQueryIsLoggedNoData ==
    /\ \A q \in DOMAIN PrometheusQueries :
          (Executed(PrometheusQueries[q]) /\ backend[q].kind # "ok") =>
              /\ Count(requests_made, PrometheusQueries[q]) = 1
              /\ Count(health_report.issues,
                       Msg("Prometheus query failed", PrometheusQueries[q], 0)) = 1
    /\ (Executed(PrometheusQueries.up) /\ backend.up.kind # "ok") =>
          node_health = FALSE /\ all_healthy = "unset"
    /\ hc_pc \in {"check_node_health", "check_cpu", "check_memory", "check_kubernetes_api",
                  "check_container_metrics", "check_critical_logs", "exit", "exited"}

\* Supporting C6's report-generator half (checked under SpecRep): at the end
\* of a daily report every failed query left one message on stderr and an
\* empty result, and the report was still rendered.
FailedReporterQueries ==
    {q \in {"nodes", "cpu", "memory", "disk", "running", "pending", "failed", "total",
            "alerts"} : prom[q].kind # "ok"}

C6_ReporterFailsSoft ==
    rep_pc = "done" =>
        /\ Len(stderr) = Cardinality(FailedReporterQueries)
        /\ "nodes" \in FailedReporterQueries => nodes = <<>>
        /\ \A m \in {"cpu", "memory", "disk"} :
              m \in FailedReporterQueries => usage[m] = <<>>
        /\ \A ph \in {"running", "pending", "failed", "total"} :
              ph \in FailedReporterQueries => pods[ph] = 0
        /\ "alerts" \in FailedReporterQueries => alerts = <<>>
        /\ report # <<>>

\* C7: with a webhook configured, a report longer than 1990 characters is
\* POSTed once, as the code-block opening, its first 1990 characters, the
\* truncation suffix and the code-block closing, and nothing else.
C7_LongReportTruncated ==
    (dc_pc = "returned" /\ webhook_url # "" /\ Len(report_text) > 1990) =>
        /\ post_count = 1
        /\ Len(posted) = 4 + 1990 + 16 + 4
        /\ SubSeq(posted, 1, 4) = CodeBlockOpen
        /\ \A i \in 1..1990 : posted[4 + i] = report_text[i]
        /\ SubSeq(posted, 1995, 2010) = TruncationSuffix
        /\ SubSeq(posted, 2011, 2014) = CodeBlockClose

\* C7 witness: a report of 1991 characters was sent to a configured webhook.
C7_Witness ==
    /\ dc_pc = "returned"
    /\ webhook_url # ""
    /\ Len(report_text) = 1991
    /\ post_count = 1
    /\ Len(posted) = 2014

RECURSIVE LinesOfKind(_, _)
LinesOfKind(lines, kind) ==
    IF lines = <<>> THEN <<>>
    ELSE (IF Head(lines).kind = kind THEN <<Head(lines)>> ELSE <<>>)
         \o LinesOfKind(Tail(lines), kind)

RECURSIVE WithState(_, _)
WithState(data, state) ==
    IF data = <<>> THEN <<>>
    ELSE (IF Head(data).state = state THEN <<Head(data)>> ELSE <<>>)
         \o WithState(Tail(data), state)

\* The alerts the endpoint returned (none when the request failed).
AlertsReturned == IF prom.alerts.kind = "ok" THEN prom.alerts.alerts ELSE <<>>

HeadingIndex(t) == CHOOSE i \in DOMAIN report : report[i] = Text(t)

\* C8: in a rendered daily report the alert lines are, in order, the returned
\* alerts whose state is "firing" (name, summary and severity marker of each,
\* with the defaults for absent fields) and there is no "no active alerts"
\* line; when none is firing there is no alert line and exactly one "no
\* active alerts" line, right under the "## Active Alerts" heading.
C8_OnlyFiringAlertsRendered ==
    rep_pc = "done" =>
        LET firing == WithState(AlertsReturned, "firing")
            shown  == LinesOfKind(report, "alert")
            none   == LinesOfKind(report, "no_alerts")
        IN  /\ Len(shown) = Len(firing)
            /\ \A k \in DOMAIN firing :
                  /\ shown[k].name = Get(firing[k].alertname, "Unknown")
                  /\ shown[k].text = Get(firing[k].summary, "")
                  /\ shown[k].marker = severity_emoji(Get(firing[k].severity, "info"))
            /\ firing # <<>> => none = <<>>
            /\ firing = <<>> =>
                  /\ none = <<NoActiveAlerts>>
                  /\ report[HeadingIndex("## Active Alerts") + 1] = NoActiveAlerts

\* C8 witness: the endpoint returned a pending alert followed by a firing one
\* and the report shows exactly the firing one.
C8_Witness ==
    /\ rep_pc = "done"
    /\ Len(AlertsReturned) = 2
    /\ AlertsReturned[1].state = "pending"
    /\ AlertsReturned[2].state = "firing"
    /\ AlertsReturned[1].alertname # AlertsReturned[2].alertname
    /\ Len(LinesOfKind(report, "alert")) = 1
    /\ LinesOfKind(report, "alert")[1].name = Get(AlertsReturned[2].alertname, "Unknown")

\* The disk readings the report generator received.
DiskRows == IF prom.disk.kind = "ok" THEN prom.disk.rows ELSE <<>>

DiskLine(i) == report[HeadingIndex("### DISK") + i]

\* C9: in a rendered daily report every disk reading v has its own line under
\* "### DISK" with exactly one of the three markers: red iff v >= 85, yellow
\* iff 70 <= v < 85, green iff v < 70.
C9_DiskMarkerBoundaries ==
    rep_pc = "done" =>
        \A i \in DOMAIN DiskRows :
            LET v == DiskRows[i].value
                m == DiskLine(i).marker
            IN  /\ DiskLine(i).kind = "usage"
                /\ DiskLine(i).num = Fmt1(v)
                /\ m \in {"red", "yellow", "green"}
                /\ m = "red" <=> v >= 85000
                /\ m = "yellow" <=> (v >= 70000 /\ v < 85000)
                /\ m = "green" <=> v < 70000

\* C9 witness: disk readings of exactly 70.0 and 85.0 were rendered yellow and
\* red.
C9_Witness ==
    /\ rep_pc = "done"
    /\ Len(DiskRows) = 2
    /\ DiskRows[1].value = 70000
    /\ DiskRows[2].value = 85000
    /\ DiskLine(1).marker = "yellow"
    /\ DiskLine(2).marker = "red"

\* C10: in every state reached by add_issue / add_warning / add_action calls,
\* overall_status is UNHEALTHY iff issues is non-empty, WARNING iff issues is
\* empty and warnings is not, HEALTHY iff both are empty; each call appends
\* its message to its own list and leaves the other two lists alone, and
\* add_action leaves overall_status alone.
C10_StatusMatchesLists ==
    /\ [](/\ health_report.overall_status = "UNHEALTHY" <=> health_report.issues # <<>>
          /\ health_report.overall_status = "WARNING" <=>
                (health_report.issues = <<>> /\ health_report.warnings # <<>>)
          /\ health_report.overall_status = "HEALTHY" <=>
                (health_report.issues = <<>> /\ health_report.warnings = <<>>))
    /\ [][LET own(l)   == health_report'[l] = Append(health_report[l], caller'.message)
              still(l) == health_report'[l] = health_report[l]
          IN  /\ caller'.op = "add_issue" =>
                    own("issues") /\ still("warnings") /\ still("actions_taken")
              /\ caller'.op = "add_warning" =>
                    still("issues") /\ own("warnings") /\ still("actions_taken")
              /\ caller'.op = "add_action" =>
                    /\ still("issues") /\ still("warnings") /\ own("actions_taken")
                    /\ still("overall_status")]_vars

\* C10 witness: all three operations were called, an action last, on a report
\* that holds issues and warnings.
C10_Witness ==
    /\ caller.op = "add_action"
    /\ health_report.issues # <<>>
    /\ health_report.warnings # <<>>
    /\ health_report.actions_taken # <<>>
    /\ health_report.overall_status = "UNHEALTHY"

\* C11 as stated: with a webhook configured, the content POSTed for a report
\* of any length is at most 2000 characters long, and a report of at most
\* 1990 characters is sent whole inside the code block, without the
\* truncation suffix.
C11_ContentWithinWebhookLimit ==
    (dc_pc = "returned" /\ webhook_url # "") =>
        /\ Len(posted) <= 2000
        /\ Len(report_text) <= 1990 =>
              posted = CodeBlockOpen \o report_text \o CodeBlockClose

\* Supporting C11 (checked under SpecDiscord): what the code sends instead.
\* A report shorter than 1990 characters is sent whole, 8 characters longer;
\* from 1990 characters on the content is always 2014 characters long and
\* ends with the suffix and the closing.
C11_ContentLengthAsCoded ==
    (dc_pc = "returned" /\ webhook_url # "") =>
        IF Len(report_text) < 1990
        THEN posted = CodeBlockOpen \o report_text \o CodeBlockClose
        ELSE /\ Len(posted) = 2014
             /\ SubSeq(posted, 1995, 2014) = TruncationSuffix \o CodeBlockClose

====
